---- MODULE Spec2Model ----
(***************************************************************************)
(* RAG-Tutor backend (src/backend/app.py): the service start-up            *)
(* (lifespan), the request handlers /health, /token, /me, /hint, /upload   *)
(* and /stats, the JWT dependencies that guard them, and the level table   *)
(* and prompt builder of the progressive hint system; and the session of   *)
(* the Streamlit client (src/frontend/app.py): login, logout, the level    *)
(* buttons and the hint request.                                           *)
(*                                                                         *)
(* A Python str is modelled as a sequence of atoms.  An atom is a run of   *)
(* characters that is either pure whitespace (" ", "\n", "\n\n") or has    *)
(* no whitespace at its ends; the empty str is << >>, concatenation is \o. *)
(* The external collaborators (Qdrant, OpenAI, the PDF reader) are not     *)
(* part of the repository: every call to one of them either returns or     *)
(* raises, chosen nondeterministically by the action that makes the call.  *)
(***************************************************************************)
EXTENDS Integers, Sequences, FiniteSets, TLC

\* ------------------------------------------------------------------ bounds

\* Most passages the vector index holds in a run (uploads that would exceed
\* it are not taken).
MaxIndex == 2

\* chunk_size and chunk_overlap of the text splitter, counted in atoms and
\* scaled down from the source's 1000 and 200 characters.
ChunkSize == 2

ChunkOverlap == 1

\* The service processes that can be started against the one Qdrant server.
Instances == {"i1", "i2"}

\* ----------------------------------------------------------- str helpers

Whitespace == {" ", "\n", "\n\n"}

\* str.lstrip() / str.rstrip() / str.strip()
RECURSIVE lstrip(_)
lstrip(s) ==
  IF s = << >> THEN << >>
  ELSE IF Head(s) \in Whitespace THEN lstrip(Tail(s)) ELSE s

RECURSIVE rstrip(_)
rstrip(s) ==
  IF s = << >> THEN << >>
  ELSE IF s[Len(s)] \in Whitespace THEN rstrip(SubSeq(s, 1, Len(s) - 1)) ELSE s

strip(s) == rstrip(lstrip(s))

\* sep.join(parts)
RECURSIVE join(_, _)
join(sep, parts) ==
  IF parts = << >> THEN << >>
  ELSE IF Len(parts) = 1 THEN parts[1]
  ELSE parts[1] \o sep \o join(sep, Tail(parts))

Min(a, b) == IF a <= b THEN a ELSE b

Max(a, b) == IF a >= b THEN a ELSE b

\* ------------------------------------------------------------------- auth

\* get_users(): username -> role
get_users ==
  [u \in {"trainer", "student01", "student02", "student03", "student04",
          "student05", "student06", "student07"} |->
     IF u = "trainer" THEN "trainer" ELSE "schueler"]

\* The payload login() signs into the access token of user u.
create_access_token(u) == [valid |-> TRUE, sub |-> u, role |-> get_users[u]]

\* A bearer token that jwt.decode rejects (bad signature, expired, garbage).
BadToken == [valid |-> FALSE, sub |-> "", role |-> ""]

\* The bearer tokens a request can carry: one a login issued, or a bad one.
Tokens == {create_access_token(u) : u \in {"trainer", "student01"}} \cup {BadToken}

NoUser == [username |-> "", role |-> ""]

\* The token field of a record whose handler reads nothing of the caller
\* (get_hint never uses its current_user).
NoToken == [valid |-> FALSE, sub |-> "(not recorded)", role |-> ""]

\* get_current_user: [status, user]; 401 when the token does not decode or
\* carries no subject.
get_current_user(token) ==
  IF ~token.valid \/ token.sub = ""
  THEN [status |-> 401, user |-> NoUser]
  ELSE [status |-> 200, user |-> [username |-> token.sub, role |-> token.role]]

\* require_trainer without its role check.
require_trainer_any_role(token) == get_current_user(token)

\* require_trainer: get_current_user, then 403 unless the role is "trainer".
require_trainer(token) ==
  LET cu == get_current_user(token) IN
  IF cu.status # 200 THEN cu
  ELSE IF cu.user.role # "trainer" THEN [status |-> 403, user |-> NoUser]
  ELSE cu

\* ------------------------------------------------------------ level table

\* The module global HINT_LEVELS: a dict, which any code of the process
\* could write.
VARIABLE HINT_LEVELS

\* Lines 275-301: the dict assigned to HINT_LEVELS when the module loads.
HINT_LEVELS_literal ==
  [l \in 1..4 |->
     CASE l = 1 ->
            [name |-> "Konzept",
             description |-> "Allgemeines Konzept und Theorie",
             prompt_instruction |->
               <<"Erkläre nur das grundlegende Konzept oder die Theorie hinter der Frage.",
                 " ", "Gib KEINE konkreten Befehle oder Tools an.",
                 " ", "Halte die Antwort kurz (2-3 Sätze).">>]
       [] l = 2 ->
            [name |-> "Tool/Bereich",
             description |-> "Welches Tool oder welcher Bereich",
             prompt_instruction |->
               <<"Nenne das relevante Tool, Programm oder den Konfigurationsbereich.",
                 " ", "Gib noch KEINE konkreten Befehle oder Syntax.",
                 " ", "Beispiel: 'Du brauchst den Dienste-Manager' oder 'Schau in die Firewall-Einstellungen'.">>]
       [] l = 3 ->
            [name |-> "Syntax/Weg",
             description |-> "Konkreter Befehl oder Weg",
             prompt_instruction |->
               <<"Gib den konkreten Befehl, Menüpfad oder die Syntax an.",
                 " ", "Der Schüler soll es selbst ausführen können.",
                 " ", "Erkläre kurz die Parameter.">>]
       [] l = 4 ->
            [name |-> "Lösung",
             description |-> "Vollständige Lösung",
             prompt_instruction |->
               <<"Gib die vollständige Lösung mit allen Schritten.",
                 " ", "Erkläre was jeder Schritt bewirkt.",
                 "\n", "- Gehe JEDEN einzelnen Schritt durch, der im Kontext steht",
                 "\n", "- Verwende EXAKT die IPs, Gateways und Werte aus dem Kontext",
                 "\n", "- ERFINDE KEINE Details die nicht im Kontext stehen",
                 "\n", "- Wenn etwas unklar ist, sage es",
                 "\n", "- Formatiere übersichtlich mit nummerierten Schritten">>]]

\* HINT_LEVELS.get(hint_level, HINT_LEVELS[1])
level_info_for(hint_level) ==
  IF hint_level \in DOMAIN HINT_LEVELS THEN HINT_LEVELS[hint_level] ELSE HINT_LEVELS[1]

\* The language and style lines alone.
WICHTIG_style_only ==
  <<"WICHTIG:",
    "\n", "- Antworte auf Deutsch",
    "\n", "- Sei präzise und klar",
    "\n", "- Gib NUR Informationen passend zum aktuellen Level",
    "\n", "- Antworte auf Deutsch",
    "\n", "- Sei präzise und vollständig">>

\* The lines of the system prompt below ANWEISUNG, the same at every level.
WICHTIG ==
  <<"WICHTIG:",
    "\n", "- Antworte auf Deutsch",
    "\n", "- Sei präzise und klar",
    "\n", "- Gib NUR Informationen passend zum aktuellen Level",
    "\n", "- Wenn der Kontext nicht ausreicht, sage das ehrlich",
    "\n", "- Verwende EXAKT die IPs, Subnetze, Gateways aus dem Kontext",
    "\n", "- ERFINDE KEINE Werte die nicht im Kontext oder den Unterlagen stehen",
    "\n", "- Wenn Information fehlt, sage: \"Diese Information steht nicht in den Unterlagen\"",
    "\n", "- Antworte auf Deutsch",
    "\n", "- Sei präzise und vollständig",
    "\n", "- Gehe JEDEN einzelnen Schritt durch, der im Kontext steht",
    "\n", "- BEHALTE Variablen-Notation bei: 192.168.x.0 statt konkreter IPs",
    "\n", "- Erkläre dass x = Labor-ID des Students (student03 → x=3)",
    "\n", "- ERFINDE KEINE konkreten IP-Adressen",
    "\n", "- Wenn der User seinen Lab-Kontext angibt, ersetze x durch seine Nummer">>

\* build_hint_prompt: (system_prompt, user_prompt)
build_hint_prompt(question, context, lab_context, hint_level) ==
  LET level_info == level_info_for(hint_level) IN
  [system_prompt |->
     <<"Du bist ein Tutor für IT-Administration und Cybersecurity.",
       "\n", "Du hilfst Schülern bei Lab-Übungen, indem du progressive Hinweise gibst.",
       "\n\n", "AKTUELLER HINT-LEVEL:", " ", ToString(hint_level),
       " ", "(", level_info.name, ")",
       "\n", "ANWEISUNG:", " ">>
     \o level_info.prompt_instruction
     \o <<"\n\n">> \o WICHTIG,
   user_prompt |->
     <<"FRAGE DES SCHÜLERS:", "\n">>
     \o question
     \o <<"\n\n",
          "KONTEXT AUS DER WISSENSBASIS (wenn du andere Infos verwendest, markiere diese eindeutig als -nicht aus Wisensbasis-):",
          "\n">>
     \o context
     \o <<"\n\n", "LAB-KONTEXT:", "\n">>
     \o (IF lab_context # << >> THEN lab_context
         ELSE <<"Kein spezifischer Lab-Kontext angegeben">>)
     \o <<"\n\n", "Gib einen Hinweis auf Level", " ", ToString(hint_level),
          " ", "(", level_info.name, ")", ".">>]

\* ------------------------------------------------------------- responses

NoRequest == [question |-> << >>, lab_context |-> << >>, hint_level |-> 0]

NoFile ==
  [filename |-> [root |-> "", ext |-> ""], readable |-> TRUE,
   pages |-> << >>, text |-> << >>]

NoSearch == [raises |-> FALSE, docs |-> << >>]

NoGen == [raises |-> FALSE, text |-> << >>]

NoHandles == [llm |-> FALSE, vectorstore |-> FALSE, embeddings |-> FALSE]

\* What one handled request leaves behind: the request, what the handler
\* saw of its collaborators, each call it made, and the HTTP response.
\* A field the request did not reach keeps its value here.
Blank ==
  [op |-> "none", status |-> 0, detail |-> "",
   token |-> NoToken, handles |-> NoHandles,
   request |-> NoRequest, file |-> NoFile,
   search |-> NoSearch, gen |-> NoGen,
   searched |-> FALSE, context |-> << >>,
   system_prompt |-> << >>, user_prompt |-> << >>,
   generated |-> FALSE,
   hint |-> << >>, hint_level |-> 0, hint_level_name |-> "",
   remaining_levels |-> 0,
   read |-> FALSE, chunked |-> FALSE, chunks |-> << >>,
   added |-> << >>, chunks_created |-> 0,
   documents_count |-> << >>]

\* ------------------------------------------------ /health, /token, /me

\* GET /health: reports which handles are set; no authentication.
health(h) == [Blank EXCEPT !.op = "health", !.status = 200, !.handles = h]

\* authenticate_user: the user, or None for an unknown name or a password
\* that verify_password rejects.
authenticate_user(username, password_ok) ==
  IF username \notin DOMAIN get_users THEN << >>
  ELSE IF ~password_ok THEN << >>
  ELSE <<[username |-> username, role |-> get_users[username]]>>

\* POST /token: 401, or a token signed for the authenticated user.
login(username, password_ok) ==
  LET user == authenticate_user(username, password_ok) IN
  IF user = << >>
  THEN [status |-> 401, access_token |-> BadToken]
  ELSE [status |-> 200, access_token |-> create_access_token(user[1].username)]

\* GET /me: the user get_current_user decodes from the token.
get_me(token) == get_current_user(token)

\* ------------------------------------------------------------------ /hint

\* Line 413: the context used when the similarity search raised.
NO_DOCS == <<"Keine relevanten Dokumente gefunden.">>

\* Line 409: k of similarity_search.
SEARCH_K == 8

\* The clamp without its upper end.
clamp_hint_level_from_below(l) == Max(1, l)

\* Line 405: hint_level = max(1, min(4, request.hint_level))
clamp_hint_level(l) == Max(1, Min(4, l))

\* The context without the fallback of the except branch.
hint_context_no_fallback(search) ==
  join(<<"\n\n">>, [n \in 1..Len(search.docs) |-> search.docs[n].page_content])

\* Lines 408-413: the context of a search outcome.  The fallback is taken
\* in the except branch only.
hint_context(search) ==
  IF search.raises THEN NO_DOCS
  ELSE join(<<"\n\n">>, [n \in 1..Len(search.docs) |-> search.docs[n].page_content])

\* Lines 398-402: the handles the handler needs before it does anything.
hint_services_available(h) == h.llm /\ h.vectorstore

\* The level's description taken for its name.
hint_level_description_of(hint_level) == HINT_LEVELS[hint_level].description

\* Line 444: level_info["name"] of level_info = HINT_LEVELS[hint_level]
hint_level_name_of(hint_level) == HINT_LEVELS[hint_level].name

\* The remaining levels counted from a zero-based level.
remaining_levels_zero_based(hint_level) == 3 - hint_level

\* Line 445: remaining_levels = 4 - hint_level
remaining_levels_of(hint_level) == 4 - hint_level

\* The chain with a canned answer in place of the HTTPException.
hint_generation_canned(r, gen) ==
  IF gen.raises
  THEN [r EXCEPT !.hint = <<"Der Tutor ist gerade nicht erreichbar.">>]
  ELSE [r EXCEPT !.hint = gen.text]

\* Lines 424-437: the outcome of the chain, given what the LLM call did.
hint_generation(r, gen) ==
  IF gen.raises
  THEN [r EXCEPT !.status = 500, !.detail = "Fehler bei der Hint-Generierung"]
  ELSE [r EXCEPT !.hint = gen.text]

\* get_hint with its get_current_user dependency: the record of the request.
\* h: the process-wide handles; search, gen: what the similarity search and
\* the LLM call do if they are reached.
get_hint(h, token, request, search, gen) ==
  LET r0 == [Blank EXCEPT !.op = "hint", !.request = request, !.handles = h]
      hint_level == clamp_hint_level(request.hint_level)
      context == hint_context(search)
      prompts == build_hint_prompt(request.question, context,
                                   request.lab_context, hint_level)
      r1 == [r0 EXCEPT !.search = search, !.searched = TRUE,
                       !.context = context,
                       !.system_prompt = prompts.system_prompt,
                       !.user_prompt = prompts.user_prompt,
                       !.gen = gen, !.generated = TRUE]
      r2 == hint_generation(r1, gen)
  IN
  IF get_current_user(token).status # 200
  THEN [Blank EXCEPT !.op = "hint", !.status = 401,
                     !.detail = "Ungültige Anmeldedaten"]
  ELSE IF ~hint_services_available(h)
  THEN [r0 EXCEPT !.status = 503, !.detail = "Backend-Services nicht verfügbar"]
  ELSE IF r2.status = 500 THEN r2
  ELSE IF hint_level \notin DOMAIN HINT_LEVELS
  THEN [r2 EXCEPT !.status = 500, !.detail = "KeyError", !.hint = << >>]
  ELSE [r2 EXCEPT !.status = 200,
                  !.hint_level = hint_level,
                  !.hint_level_name = hint_level_name_of(hint_level),
                  !.remaining_levels = remaining_levels_of(hint_level)]

\* ---------------------------------------------------------------- /upload

\* Line 463
allowed_extensions == {".pdf", ".sql", ".md", ".txt"}

\* str.lower() on the extensions uploads carry.
lower(s) ==
  CASE s = ".PDF" -> ".pdf"
    [] s = ".SQL" -> ".sql"
    [] s = ".MD" -> ".md"
    [] s = ".TXT" -> ".txt"
    [] s = ".EXE" -> ".exe"
    [] OTHER -> s

\* Line 464: os.path.splitext(file.filename.lower())[1]
file_ext_of(file) == lower(file.filename.ext)

\* Lines 483-485: the text of a PDF, each page's text followed by "\n".
RECURSIVE pdf_text(_)
pdf_text(pages) ==
  IF pages = << >> THEN << >>
  ELSE Head(pages) \o <<"\n">> \o pdf_text(Tail(pages))

\* Lines 476-490: the extracted text of a readable file.
extract_text(file, file_ext) ==
  IF file_ext = ".pdf" THEN pdf_text(file.pages) ELSE file.text

\* Line 492: not text.strip()
is_blank(text) == strip(text) = << >>

\* Lines 499-504: the splitter's chunks of a text, as windows of at most
\* ChunkSize atoms that start ChunkSize - ChunkOverlap atoms apart, each
\* stripped, none empty.
RECURSIVE windows(_, _)
windows(s, start) ==
  IF start > Len(s) THEN << >>
  ELSE LET stop == Min(start + ChunkSize - 1, Len(s))
           chunk == strip(SubSeq(s, start, stop))
           rest == IF stop = Len(s) THEN << >>
                   ELSE windows(s, start + ChunkSize - ChunkOverlap)
       IN IF chunk = << >> THEN rest ELSE <<chunk>> \o rest

split_text(text) == windows(strip(text), 1)

\* The documents built from all chunks but the last.
make_documents_but_last(chunks, file, file_ext, current_user) ==
  [n \in 1..(Len(chunks) - 1) |->
     [page_content |-> chunks[n],
      source |-> file.filename,
      file_type |-> file_ext,
      uploaded_by |-> current_user.username]]

\* Lines 507-518: one Document per chunk, tagged with the upload's metadata
\* (uploaded_at, the wall clock, is left out).
make_documents(chunks, file, file_ext, current_user) ==
  [n \in 1..Len(chunks) |->
     [page_content |-> chunks[n],
      source |-> file.filename,
      file_type |-> file_ext,
      uploaded_by |-> current_user.username]]

\* Lines 456-460
upload_services_available(h) == h.vectorstore /\ h.embeddings

\* The handler without "except HTTPException: raise".
upload_except_catch_all(is_http, status, detail) ==
  [status |-> 500, detail |-> "Fehler beim Verarbeiten"]

\* Lines 529-535: what the handler's except clauses make of an exception
\* raised in the try block: an HTTPException is re-raised as it is, any
\* other becomes a 500.
upload_except(is_http, status, detail) ==
  IF is_http THEN [status |-> status, detail |-> detail]
  ELSE [status |-> 500, detail |-> "Fehler beim Verarbeiten"]

\* Lines 492-496: the blank-text check of the try block.
upload_rejects_text(text) == is_blank(text)

\* upload_document with its require_trainer dependency: the record of the
\* request.  add: what vectorstore.add_documents does if it is reached; it
\* inserts the first add.n documents and then raises (add.raises) or
\* inserts them all.
upload_document(h, token, file, add) ==
  LET r0 == [Blank EXCEPT !.op = "upload", !.token = token, !.file = file,
                          !.handles = h]
      auth == require_trainer(token)
      file_ext == file_ext_of(file)
      r1 == [r0 EXCEPT !.read = TRUE]
      text == extract_text(file, file_ext)
      chunks == split_text(text)
      documents == make_documents(chunks, file, file_ext, auth.user)
      r2 == [r1 EXCEPT !.chunked = TRUE, !.chunks = chunks]
      failed(r, is_http, status, detail) ==
        LET e == upload_except(is_http, status, detail)
        IN [r EXCEPT !.status = e.status, !.detail = e.detail]
  IN
  IF auth.status = 401
  THEN [r0 EXCEPT !.status = 401, !.detail = "Ungültige Anmeldedaten"]
  ELSE IF auth.status = 403
  THEN [r0 EXCEPT !.status = 403,
                  !.detail = "Nur Trainer haben Zugriff auf diese Funktion"]
  ELSE IF ~upload_services_available(h)
  THEN [r0 EXCEPT !.status = 503, !.detail = "Backend-Services nicht verfügbar"]
  ELSE IF file_ext \notin allowed_extensions
  THEN [r0 EXCEPT !.status = 400, !.detail = "Nur Dateien werden unterstützt"]
  ELSE IF ~file.readable
  THEN failed(r1, FALSE, 0, "")
  ELSE IF upload_rejects_text(text)
  THEN failed(r1, TRUE, 400, "Datei enthält keinen extrahierbaren Text")
  ELSE IF add.raises
  THEN failed([r2 EXCEPT !.added = SubSeq(documents, 1, Min(add.n, Len(documents)))],
              FALSE, 0, "")
  ELSE [r2 EXCEPT !.status = 200, !.detail = "Dokument erfolgreich hochgeladen",
                  !.added = documents, !.chunks_created = Len(chunks)]

\* ----------------------------------------------------------------- /stats

\* get_stats with its require_trainer dependency.  count: the points_count
\* Qdrant reports, or << >> paired with raises when the call fails.
get_stats(h, token, raises, points_count) ==
  LET r0 == [Blank EXCEPT !.op = "stats", !.token = token, !.handles = h]
      auth == require_trainer(token)
  IN
  IF auth.status = 401
  THEN [r0 EXCEPT !.status = 401, !.detail = "Ungültige Anmeldedaten"]
  ELSE IF auth.status = 403
  THEN [r0 EXCEPT !.status = 403,
                  !.detail = "Nur Trainer haben Zugriff auf diese Funktion"]
  ELSE [r0 EXCEPT !.status = 200,
                  !.documents_count =
                     IF ~h.vectorstore THEN << >>
                     ELSE IF raises THEN <<"Error">>
                     ELSE <<ToString(points_count)>>]

\* ---------------------------------------------------------------- client

\* Python's None, and a value that is not None.
None == << >>

\* Lines 21-26: the session state of a new browser session.
new_session_state == [token |-> None, user |-> None, hint_level |-> 1]

\* What the page shows below its widgets: the st.error / st.warning /
\* st.success lines of the last script run and the hint it displayed.
NothingShown == [messages |-> << >>, result |-> None]

\* Lines 129-163: the branch a script run takes.  The logged-in branch
\* starts by reading st.session_state.user['username'], which raises
\* TypeError on None.
render(s) ==
  IF s.token = None THEN "login"
  ELSE IF s.user = None THEN "TypeError"
  ELSE "main"

\* frontend login(), lines 29-50: [session, ok, error].  token_call and
\* me_call say what the two HTTP calls do: "raises" (requests raises),
\* "answers" (the backend's handler answers), "unavailable" (a status
\* other than 200 comes back).
frontend_login(s, username, password_ok, token_call, me_call) ==
  IF token_call = "raises"
  THEN [session |-> s, ok |-> FALSE, error |-> <<"Verbindungsfehler">>]
  ELSE
  LET response == IF token_call = "answers" THEN login(username, password_ok)
                  ELSE [status |-> 503, access_token |-> BadToken]
  IN
  IF response.status = 200
  THEN LET s1 == [s EXCEPT !.token = <<response.access_token>>] IN
       IF me_call = "raises"
       THEN [session |-> s1, ok |-> FALSE, error |-> <<"Verbindungsfehler">>]
       ELSE LET user_response ==
                  IF me_call = "answers" THEN get_me(response.access_token)
                  ELSE [status |-> 503, user |-> NoUser]
            IN [session |-> IF user_response.status = 200
                            THEN [s1 EXCEPT !.user = <<user_response.user>>]
                            ELSE s1,
                ok |-> TRUE, error |-> << >>]
  ELSE [session |-> s, ok |-> FALSE, error |-> << >>]

\* frontend logout(), lines 53-57.
frontend_logout(s) ==
  [s EXCEPT !.token = None, !.user = None, !.hint_level = 1]

\* frontend get_hint(), lines 60-85: [session, result, error].  raises
\* says that requests raised; response is the backend's answer otherwise.
frontend_get_hint(s, raises, response) ==
  IF raises
  THEN [session |-> s, result |-> None, error |-> <<"Verbindungsfehler">>]
  ELSE IF response.status = 200
  THEN [session |-> s,
        result |-> <<[hint |-> response.hint,
                      hint_level |-> response.hint_level,
                      hint_level_name |-> response.hint_level_name,
                      remaining_levels |-> response.remaining_levels]>>,
        error |-> << >>]
  ELSE IF response.status = 401
  THEN [session |-> frontend_logout(s), result |-> None,
        error |-> <<"Sitzung abgelaufen. Bitte neu anmelden.">>]
  ELSE [session |-> s, result |-> None,
        error |-> <<"Fehler:", " ", response.detail>>]

\* ------------------------------------------------------------------ state

VARIABLES
  deployed,           \* the processes of this deployment
  OPENAI_API_KEY,     \* whether the environment sets it (line 43)
  pc,                 \* per process: "init", "checked" (lifespan has listed
                      \* the collections), "running" (lifespan has yielded)
  collection_names,   \* per process: COLLECTION_NAME was in the listing
  startup_error,      \* per process: the call whose exception lifespan
                      \* caught and printed (line 196), "" when none
  llm,                \* per process: the global is set (TRUE) or None
  embeddings,         \* per process: the global is set or None
  vectorstore,        \* per process: the global is set or None
  collection_exists,  \* Qdrant: the collection rag_tutor_docs exists
  index,              \* Qdrant: the documents of the collection, in order
                      \* of insertion
  last,               \* the record of the request handled last
  session_state,      \* client: st.session_state (token, user, hint_level)
  page,               \* client: the branch the last script run took
  shown               \* client: what the last script run displayed

backend_vars ==
  <<deployed, OPENAI_API_KEY, pc, collection_names, startup_error, llm,
    embeddings, vectorstore, collection_exists, index, last, HINT_LEVELS>>

client_vars == <<session_state, page, shown>>

vars == <<backend_vars, client_vars>>

\* The handles process i holds.
handles(i) ==
  [llm |-> llm[i], vectorstore |-> vectorstore[i], embeddings |-> embeddings[i]]

\* ----------------------------------------------------------------- inputs

Levels == {-5, 0, 1, 2, 3, 4, 5, 9, 10}

Questions == {<< >>, <<" ">>, <<"Wie erstelle ich eine Firewall-Regel?">>}

LabContexts == {<< >>, <<"student03">>}

HintRequests ==
  [question : Questions, lab_context : LabContexts, hint_level : Levels]

\* What the LLM call can do.
GenOutcomes ==
  {[raises |-> TRUE, text |-> << >>],
   [raises |-> FALSE, text |-> <<"(Hinweis des Modells)">>]}

\* The orders in which a search can rank n documents.
Rankings(n) == {p \in [1..n -> 1..n] : \A a, b \in 1..n : p[a] = p[b] => a = b}

\* What similarity_search(question, k) can do on the index: raise, or
\* return the k best documents in some ranking.
SearchOutcomes(k) ==
  {[raises |-> TRUE, docs |-> << >>]} \cup
  {[raises |-> FALSE,
    docs |-> [n \in 1..Min(k, Len(index)) |-> index[p[n]]]] :
     p \in Rankings(Len(index))}

UploadFiles ==
  {[filename |-> [root |-> "lab", ext |-> ".pdf"], readable |-> TRUE,
    pages |-> << <<"192.168.x.1">> >>, text |-> << >>],
   [filename |-> [root |-> "scan", ext |-> ".PDF"], readable |-> TRUE,
    pages |-> << << >> >>, text |-> << >>],
   [filename |-> [root |-> "db", ext |-> ".SQL"], readable |-> TRUE,
    pages |-> << >>, text |-> <<"SELECT", " ", "1;", "\n">>],
   [filename |-> [root |-> "empty", ext |-> ".txt"], readable |-> TRUE,
    pages |-> << >>, text |-> <<" ", "\n">>],
   [filename |-> [root |-> "broken", ext |-> ".md"], readable |-> FALSE,
    pages |-> << >>, text |-> << >>],
   [filename |-> [root |-> "tool", ext |-> ".exe"], readable |-> TRUE,
    pages |-> << >>, text |-> <<"MZ">>],
   [filename |-> [root |-> "README", ext |-> ""], readable |-> TRUE,
    pages |-> << >>, text |-> <<"lies", " ", "mich">>]}

\* What add_documents can do: insert everything, or raise after inserting
\* the first n documents.
AddOutcomes ==
  {[raises |-> FALSE, n |-> 0]} \cup {[raises |-> TRUE, n |-> n] : n \in 0..MaxIndex}

\* The names typed into the login form: users of get_users, and a stranger.
Usernames ==
  {"trainer", "student01", "student02", "student03", "student04", "mallory"}

CallOutcomes == {"raises", "answers", "unavailable"}

\* The token as the backend decodes it after ACCESS_TOKEN_EXPIRE_MINUTES.
expired(token) == [token EXCEPT !.valid = FALSE]

\* The handles of the backend process that answers the client: started
\* with everything, or with nothing.
AllHandles == [llm |-> TRUE, vectorstore |-> TRUE, embeddings |-> TRUE]

\* ---------------------------------------------------------------- actions

\* The processes have not started; Qdrant may hold the (empty) collection
\* of an earlier deployment.
InitBackend ==
  /\ OPENAI_API_KEY \in BOOLEAN
  /\ pc = [i \in Instances |-> "init"]
  /\ collection_names = [i \in Instances |-> FALSE]
  /\ startup_error = [i \in Instances |-> ""]
  /\ llm = [i \in Instances |-> FALSE]
  /\ embeddings = [i \in Instances |-> FALSE]
  /\ vectorstore = [i \in Instances |-> FALSE]
  /\ collection_exists \in BOOLEAN
  /\ index = << >>
  /\ last = Blank
  /\ HINT_LEVELS = HINT_LEVELS_literal

\* Frontend lines 21-26 and the first script run: the login screen.
InitClient ==
  /\ session_state = new_session_state
  /\ page = render(new_session_state)
  /\ shown = NothingShown

\* One service process.
Init == InitBackend /\ InitClient /\ deployed = {"i1"}

\* lifespan, lines 158-176: set llm and embeddings when the key is set,
\* then connect to Qdrant and list its collections.  An exception ends the
\* try block: the process runs without a vectorstore.
lifespan_connect(i) ==
  /\ pc[i] = "init"
  /\ llm' = [llm EXCEPT ![i] = OPENAI_API_KEY]
  /\ embeddings' = [embeddings EXCEPT ![i] = OPENAI_API_KEY]
  /\ \E reachable \in BOOLEAN :
       IF reachable
       THEN /\ collection_names' = [collection_names EXCEPT ![i] = collection_exists]
            /\ pc' = [pc EXCEPT ![i] = "checked"]
            /\ UNCHANGED startup_error
       ELSE /\ pc' = [pc EXCEPT ![i] = "running"]
            /\ startup_error' = [startup_error EXCEPT ![i] = "get_collections"]
            /\ UNCHANGED collection_names
  /\ UNCHANGED <<deployed, OPENAI_API_KEY, vectorstore, collection_exists,
                 index, last, HINT_LEVELS>>

\* lifespan, lines 178-198: create the collection when the listing did not
\* hold it, then build the vectorstore.  Qdrant refuses to create a
\* collection that exists; that, or any failing call, ends the try block.
lifespan_provision(i) ==
  /\ pc[i] = "checked"
  /\ pc' = [pc EXCEPT ![i] = "running"]
  /\ \E created \in BOOLEAN, built \in BOOLEAN :
       LET create == ~collection_names[i]
           create_ok == created /\ ~collection_exists
       IN /\ collection_exists' = (collection_exists \/ (create /\ create_ok))
          /\ vectorstore' =
               [vectorstore EXCEPT ![i] = (create => create_ok) /\ built]
          /\ startup_error' =
               [startup_error EXCEPT ![i] =
                  IF create /\ collection_exists THEN "create_collection: exists"
                  ELSE IF create /\ ~created THEN "create_collection"
                  ELSE IF ~built THEN "QdrantVectorStore"
                  ELSE ""]
  /\ UNCHANGED <<deployed, OPENAI_API_KEY, collection_names, llm, embeddings,
                 index, last, HINT_LEVELS>>

\* GET /health, handled by a running process.
Health(i) ==
  /\ pc[i] = "running"
  /\ last' = health(handles(i))
  /\ UNCHANGED <<deployed, OPENAI_API_KEY, pc, collection_names, startup_error,
                 llm, embeddings, vectorstore, collection_exists, index,
                 HINT_LEVELS>>

\* POST /hint, handled by a running process.  get_hint reads nothing of
\* current_user, so one token is tried per outcome of get_current_user; the
\* collaborators' outcomes are chosen only for a request that reaches them.
Hint(i) ==
  /\ pc[i] = "running"
  /\ \E st \in {get_current_user(t).status : t \in Tokens} :
       LET token == CHOOSE t \in Tokens : get_current_user(t).status = st IN
       IF get_current_user(token).status # 200
       THEN last' = get_hint(handles(i), token, NoRequest, NoSearch, NoGen)
       ELSE \E request \in HintRequests :
              IF ~hint_services_available(handles(i))
              THEN last' = get_hint(handles(i), token, request, NoSearch, NoGen)
              ELSE \E search \in SearchOutcomes(SEARCH_K), gen \in GenOutcomes :
                     last' = get_hint(handles(i), token, request, search, gen)
  /\ UNCHANGED <<deployed, OPENAI_API_KEY, pc, collection_names, startup_error,
                 llm, embeddings, vectorstore, collection_exists, index,
                 HINT_LEVELS>>

\* POST /upload, handled by a running process.
Upload(i) ==
  /\ pc[i] = "running"
  /\ \E token \in Tokens, file \in UploadFiles, add \in AddOutcomes :
       LET r == upload_document(handles(i), token, file, add)
       IN /\ Len(index) + Len(r.added) <= MaxIndex
          /\ index' = index \o r.added
          /\ last' = r
  /\ UNCHANGED <<deployed, OPENAI_API_KEY, pc, collection_names, startup_error,
                 llm, embeddings, vectorstore, collection_exists, HINT_LEVELS>>

\* A stats handler that sets the vectorstore global from its own probe of
\* Qdrant.
Stats_probing(i) ==
  /\ pc[i] = "running"
  /\ \E token \in Tokens, raises \in BOOLEAN :
       /\ last' = get_stats(handles(i), token, raises, Len(index))
       /\ vectorstore' = [vectorstore EXCEPT ![i] = ~raises]
  /\ UNCHANGED <<deployed, OPENAI_API_KEY, pc, collection_names, startup_error,
                 llm, embeddings, collection_exists, index, HINT_LEVELS>>

\* GET /stats, handled by a running process.
Stats(i) ==
  /\ pc[i] = "running"
  /\ \E token \in Tokens, raises \in BOOLEAN :
       last' = get_stats(handles(i), token, raises, Len(index))
  /\ UNCHANGED <<deployed, OPENAI_API_KEY, pc, collection_names, startup_error,
                 llm, embeddings, vectorstore, collection_exists, index,
                 HINT_LEVELS>>

LifespanConnect ==
  (\E i \in deployed : lifespan_connect(i)) /\ UNCHANGED client_vars

LifespanProvision ==
  (\E i \in deployed : lifespan_provision(i)) /\ UNCHANGED client_vars

HealthRequest == (\E i \in deployed : Health(i)) /\ UNCHANGED client_vars

HintRequest == (\E i \in deployed : Hint(i)) /\ UNCHANGED client_vars

UploadRequest == (\E i \in deployed : Upload(i)) /\ UNCHANGED client_vars

StatsRequest == (\E i \in deployed : Stats(i)) /\ UNCHANGED client_vars

Next ==
  \/ LifespanConnect
  \/ LifespanProvision
  \/ HealthRequest
  \/ HintRequest
  \/ UploadRequest
  \/ StatsRequest

Spec == Init /\ [][Next]_vars

\* ------------------------------------------------- two service processes

\* Two processes of the service, with the API key in their environment,
\* started against the same Qdrant server, which has no collection yet.
InitTwo ==
  /\ InitBackend /\ InitClient
  /\ deployed = Instances
  /\ OPENAI_API_KEY
  /\ ~collection_exists

\* The one hint request sent to the two processes.
ProbeRequest ==
  [question |-> <<"Wie erstelle ich eine Firewall-Regel?">>,
   lab_context |-> << >>, hint_level |-> 1]

\* POST /hint with the probe request, or without a valid token.
ProbeHintRequest == HintRequest /\ last'.request \in {NoRequest, ProbeRequest}

NextTwo ==
  \/ LifespanConnect
  \/ LifespanProvision
  \/ HealthRequest
  \/ ProbeHintRequest
  \/ UploadRequest
  \/ StatsRequest

SpecTwo == InitTwo /\ [][NextTwo]_vars

\* --------------------------------------------------------- client actions

\* The login form is submitted (lines 142-147).  The script run that the
\* submit starts takes the login branch only while no token is held.  After
\* login() returned True the script reruns; otherwise the login screen stays
\* with its error lines.
ClientLogin ==
  /\ render(session_state) = "login"
  /\ \E username \in Usernames, password_ok \in BOOLEAN,
        token_call \in CallOutcomes, me_call \in CallOutcomes :
       LET r == frontend_login(session_state, username, password_ok,
                               token_call, me_call)
       IN /\ session_state' = r.session
          /\ IF r.ok
             THEN /\ page' = render(r.session)
                  /\ shown' = NothingShown
             ELSE /\ page' = "login"
                  /\ shown' = [NothingShown EXCEPT !.messages =
                                 IF r.error = << >>
                                 THEN << <<"Falscher Benutzername oder Passwort">> >>
                                 ELSE <<r.error, <<"Falscher Benutzername oder Passwort">> >>]
  /\ UNCHANGED backend_vars

\* The Abmelden button (lines 156-158): logout(), then a rerun.
ClientLogout ==
  /\ render(session_state) = "main"
  /\ session_state' = frontend_logout(session_state)
  /\ page' = render(session_state')
  /\ shown' = NothingShown
  /\ UNCHANGED backend_vars

\* A level button (lines 208-216): selects the level, then a rerun.
ClientSelectLevel ==
  /\ render(session_state) = "main"
  /\ \E level \in 1..4 :
       session_state' = [session_state EXCEPT !.hint_level = level]
  /\ page' = "main"
  /\ shown' = NothingShown
  /\ UNCHANGED backend_vars

\* The Mehr Details button (lines 259-262).
ClientMoreDetails ==
  /\ render(session_state) = "main"
  /\ session_state.hint_level < 4
  /\ session_state' = [session_state EXCEPT !.hint_level = @ + 1]
  /\ page' = "main"
  /\ shown' = NothingShown
  /\ UNCHANGED backend_vars

\* The Hinweis erhalten button (lines 241-255): a blank question gets a
\* warning; another one is sent with the session's token, which the backend
\* may find expired, and the session's level.
ClientHint ==
  /\ render(session_state) = "main"
  /\ page' = "main"
  /\ \E question \in Questions :
       IF strip(question) = << >>
       THEN /\ shown' = [NothingShown EXCEPT !.messages =
                           << <<"Bitte gib eine Frage ein">> >>]
            /\ UNCHANGED session_state
       ELSE \E raises \in BOOLEAN, h \in {AllHandles, NoHandles},
               token \in {session_state.token[1], expired(session_state.token[1])},
               gen \in GenOutcomes :
              LET request == [question |-> question, lab_context |-> << >>,
                              hint_level |-> session_state.hint_level]
                  r == frontend_get_hint(session_state, raises,
                         get_hint(h, token, request, NoSearch, gen))
              IN /\ session_state' = r.session
                 /\ shown' = [messages |-> IF r.error = << >> THEN << >>
                                           ELSE <<r.error>>,
                              result |-> r.result]
  /\ UNCHANGED backend_vars

\* Any other interaction: the script runs again on the same session state.
ClientRerun ==
  /\ page' = render(session_state)
  /\ shown' = NothingShown
  /\ UNCHANGED session_state
  /\ UNCHANGED backend_vars

\* The page is opened in a new browser session (lines 21-26).
ClientNewSession ==
  /\ session_state' = new_session_state
  /\ page' = render(new_session_state)
  /\ shown' = NothingShown
  /\ UNCHANGED backend_vars

\* The client alone; the backend it talks to is seen through its answers.
InitSession ==
  /\ InitClient
  /\ deployed = {}
  /\ OPENAI_API_KEY = TRUE
  /\ pc = [i \in Instances |-> "init"]
  /\ collection_names = [i \in Instances |-> FALSE]
  /\ startup_error = [i \in Instances |-> ""]
  /\ llm = [i \in Instances |-> FALSE]
  /\ embeddings = [i \in Instances |-> FALSE]
  /\ vectorstore = [i \in Instances |-> FALSE]
  /\ collection_exists = TRUE
  /\ index = << >>
  /\ last = Blank
  /\ HINT_LEVELS = HINT_LEVELS_literal

NextSession ==
  \/ ClientLogin
  \/ ClientLogout
  \/ ClientSelectLevel
  \/ ClientMoreDetails
  \/ ClientHint
  \/ ClientRerun
  \/ ClientNewSession

SpecSession == InitSession /\ [][NextSession]_vars

\* ----------------------------------------------------------------- claims

\* A hint request whose handler body ran (get_current_user let it through).
HintHandled == last.op = "hint" /\ last.status # 401

\* What the caller and the generator see of a hint request.
HintView(r) ==
  [status |-> r.status, detail |-> r.detail, hint |-> r.hint,
   hint_level |-> r.hint_level, hint_level_name |-> r.hint_level_name,
   remaining_levels |-> r.remaining_levels,
   searched |-> r.searched, context |-> r.context,
   generated |-> r.generated,
   system_prompt |-> r.system_prompt, user_prompt |-> r.user_prompt]

\* The level in [1,4] nearest to l.
Nearest(l) == IF l <= 1 THEN 1 ELSE IF l >= 4 THEN 4 ELSE l

\* The record of the same request, with the same collaborators, had it
\* asked for level l.
HintAtLevel(l) ==
  get_hint(last.handles, create_access_token("student01"),
           [last.request EXCEPT !.hint_level = l], last.search, last.gen)

\* C1: whatever integer level a hint request asks for, its outcome (status,
\* response level, level name, remaining levels, the prompts handed to the
\* generator) is the outcome of the same request asking for the nearest
\* level in [1,4], and a response carries that level: the level is never a
\* reason to reject.
C1_LevelClamped ==
  HintHandled =>
    /\ HintView(last) = HintView(HintAtLevel(Nearest(last.request.hint_level)))
    /\ last.status = 200 => last.hint_level = Nearest(last.request.hint_level)
    /\ last.status \in {200, 500, 503}
    /\ last.status = 500 => last.gen.raises

\* C1 witness: a request for level 10 answered at level 4.
C1_Witness ==
  /\ last.op = "hint" /\ last.status = 200
  /\ last.request.hint_level = 10 /\ last.hint_level = 4

\* C2: every HintResponse has remaining_levels = 4 - hint_level for the
\* level of the same response, so remaining_levels is in [0,3] and is 0
\* exactly when the level is 4.
C2_RemainingLevels ==
  (last.op = "hint" /\ last.status = 200) =>
    /\ last.remaining_levels = 4 - last.hint_level
    /\ last.remaining_levels \in 0..3
    /\ last.remaining_levels = 0 <=> last.hint_level = 4

\* C2 witness: a response at level 4 with nothing remaining.
C2_Witness ==
  /\ last.op = "hint" /\ last.status = 200
  /\ last.hint_level = 4 /\ last.remaining_levels = 0

\* C3 as stated: the level name of a response is one of the four labels of
\* the level table, "Concept" at level 1 and "Full Solution" at level 4.
C3_EnglishLabels ==
  (last.op = "hint" /\ last.status = 200) =>
    /\ last.hint_level \in 1..4
    /\ last.hint_level_name \in {HINT_LEVELS[l].name : l \in 1..4}
    /\ last.hint_level = 1 => last.hint_level_name = "Concept"
    /\ last.hint_level = 4 => last.hint_level_name = "Full Solution"

\* C3: the level name of a response is the label the level table gives its
\* level, one of "Konzept", "Tool/Bereich", "Syntax/Weg", "Lösung":
\* "Konzept" at level 1 and "Lösung" at level 4.
C3_LevelLabels ==
  (last.op = "hint" /\ last.status = 200) =>
    /\ last.hint_level \in 1..4
    /\ last.hint_level_name \in {"Konzept", "Tool/Bereich", "Syntax/Weg", "Lösung"}
    /\ last.hint_level_name = HINT_LEVELS[last.hint_level].name
    /\ last.hint_level = 1 => last.hint_level_name = "Konzept"
    /\ last.hint_level = 2 => last.hint_level_name = "Tool/Bereich"
    /\ last.hint_level = 3 => last.hint_level_name = "Syntax/Weg"
    /\ last.hint_level = 4 => last.hint_level_name = "Lösung"

\* C3 witness: a response at level 1, named "Konzept".
C3_Witness ==
  /\ last.op = "hint" /\ last.status = 200
  /\ last.hint_level = 1 /\ last.hint_level_name = "Konzept"

\* C4 as stated: when the similarity search of a hint request returns no
\* passage, the context handed to the generator is the "Keine relevanten
\* Dokumente gefunden." sentinel, never the empty string (stated of the
\* requests whose generator call then succeeds).
C4_EmptySearchSentinel ==
  (last.op = "hint" /\ last.searched /\ ~last.search.raises
     /\ last.search.docs = << >> /\ ~last.gen.raises) =>
    /\ last.generated
    /\ last.context = NO_DOCS
    /\ last.context # << >>

\* C5: when the similarity search of a hint request raises, the request
\* goes on: the context is the sentinel, the generator is called with it,
\* and if the generator succeeds the caller gets a HintResponse with its
\* text.
C5_SearchErrorAbsorbed ==
  (last.op = "hint" /\ last.searched /\ last.search.raises) =>
    /\ last.context = NO_DOCS
    /\ last.generated
    /\ last.user_prompt =
         build_hint_prompt(last.request.question, NO_DOCS,
                           last.request.lab_context,
                           Nearest(last.request.hint_level)).user_prompt
    /\ ~last.gen.raises =>
         /\ last.status = 200
         /\ last.hint = last.gen.text
         /\ last.hint_level = Nearest(last.request.hint_level)

\* C5 witness: a search that raised, answered with a HintResponse.
C5_Witness ==
  /\ last.op = "hint" /\ last.searched /\ last.search.raises
  /\ last.status = 200 /\ last.context = NO_DOCS

\* C6 as stated: whenever the process has its llm, a hint request goes on
\* to generation (with the sentinel context when the process has no
\* vectorstore) instead of being answered with an error for want of the
\* index.
C6_NoIndexNoFailure ==
  (HintHandled /\ last.handles.llm) =>
    /\ last.generated
    /\ last.status # 503
    /\ ~last.handles.vectorstore => last.context = NO_DOCS

\* The part of a record that carries a HintResponse.
NoHintResponse(r) ==
  /\ r.hint = << >> /\ r.hint_level = 0
  /\ r.hint_level_name = "" /\ r.remaining_levels = 0

\* The generator of the request is missing, or was called and raised.
GenerationUnavailable ==
  HintHandled /\ (~last.handles.llm \/ (last.generated /\ last.gen.raises))

\* C7 as stated: when the generator is missing or its call raises, the
\* request fails with no HintResponse and the caller is told the service
\* is unavailable (503).
C7_GenerationFailureIs503 ==
  GenerationUnavailable => (last.status = 503 /\ NoHintResponse(last))

\* C7: when the generator is missing or its call raises, the request fails
\* with no HintResponse: with 503 (service unavailable) when the process
\* has no llm, before any search or generation, and with 500 (internal
\* server error, "Fehler bei der Hint-Generierung") when the call raises.
C7_GenerationFailureIsHard ==
  GenerationUnavailable =>
    /\ NoHintResponse(last)
    /\ ~last.handles.llm =>
         (last.status = 503 /\ ~last.searched /\ ~last.generated)
    /\ (last.generated /\ last.gen.raises) =>
         (last.status = 500 /\ last.detail = "Fehler bei der Hint-Generierung")

\* C7 witness: a generator call that raised, answered with 500.
C7_Witness ==
  /\ last.op = "hint" /\ last.generated /\ last.gen.raises
  /\ last.status = 500

\* C8 as stated: a hint request whose question is empty or blank is
\* rejected by the handler, and neither the similarity search nor the
\* generator is called for it (stated of the requests for which no
\* collaborator fails).
C8_BlankQuestionRejected ==
  (HintHandled /\ is_blank(last.request.question)
     /\ ~last.search.raises /\ ~last.gen.raises) =>
    /\ last.status # 200
    /\ ~last.searched
    /\ ~last.generated

\* The extension of an upload is not allowed, or its text extracts blank.
BadUpload(r) ==
  LET file_ext == file_ext_of(r.file) IN
  \/ file_ext \notin allowed_extensions
  \/ r.file.readable /\ is_blank(extract_text(r.file, file_ext))

\* C9: an upload whose extension is not .pdf, .sql, .md or .txt, or whose
\* extracted text is blank, is never accepted, is not chunked and leaves
\* the index as it was; the handler answers it with 400 (it is reached
\* when the caller is a trainer and the process holds its vectorstore and
\* embeddings).
C9_BadUploadRejected ==
  /\ [](last.op = "upload" /\ BadUpload(last) =>
          /\ last.status \in {400, 401, 403, 503}
          /\ ~last.chunked /\ last.added = << >> /\ last.chunks_created = 0
          /\ (require_trainer(last.token).status = 200
                /\ upload_services_available(last.handles)) =>
               last.status = 400)
  /\ [][(last'.op = "upload" /\ BadUpload(last')) => index' = index]_vars

\* C9 witness: a trainer's upload of an allowed type whose text is blank,
\* answered with 400.
C9_Witness ==
  /\ last.op = "upload" /\ last.status = 400
  /\ file_ext_of(last.file) \in allowed_extensions
  /\ last.read /\ index # << >>

\* C10: the index changes only by an upload of a caller whose token carries
\* the trainer role, and then by the documents of that upload; an upload
\* by anyone else is rejected (401, 403) before the file is read, chunked
\* or inserted; hint and stats requests insert nothing.
C10_OnlyTrainerInserts ==
  /\ [][index' # index =>
          /\ last'.op = "upload"
          /\ last'.token.valid /\ last'.token.role = "trainer"
          /\ get_users[last'.token.sub] = "trainer"
          /\ index' = index \o last'.added]_vars
  /\ [](last.op = "upload" /\ ~(last.token.valid /\ last.token.role = "trainer") =>
          /\ last.status \in {401, 403}
          /\ ~last.read /\ ~last.chunked /\ last.added = << >>)
  /\ [](last.op \in {"hint", "stats"} => (last.added = << >> /\ ~last.chunked))

\* C10 witness: a student's upload, rejected with 403, with an index that
\* a trainer has filled.
C10_Witness ==
  /\ last.op = "upload" /\ last.token.role = "schueler"
  /\ last.status = 403 /\ index # << >>

\* C11: a successful upload returns chunks_created equal to the number of
\* chunks the splitter made of the file's text, which is the number of
\* documents the call appended to the index; the n-th of them holds the
\* n-th chunk and the call's source (the file name), file_type (the
\* lower-cased extension) and uploaded_by (the caller's user name).
C11_ChunksCreated ==
  /\ [](last.op = "upload" /\ last.status = 200 =>
          /\ last.chunks = split_text(extract_text(last.file, file_ext_of(last.file)))
          /\ last.chunks_created = Len(last.chunks)
          /\ last.chunks_created = Len(last.added)
          /\ \A n \in 1..Len(last.added) :
               /\ last.added[n].page_content = last.chunks[n]
               /\ last.added[n].source = last.file.filename
               /\ last.added[n].file_type = file_ext_of(last.file)
               /\ last.added[n].uploaded_by = last.token.sub)
  /\ [][(last'.op = "upload" /\ last'.status = 200 /\ last' # last) =>
          /\ Len(index') = Len(index) + last'.chunks_created
          /\ SubSeq(index', Len(index) + 1, Len(index')) = last'.added]_vars

\* C11 witness: an accepted upload of two chunks, both in the index.
C11_Witness ==
  /\ last.op = "upload" /\ last.status = 200
  /\ last.chunks_created = 2 /\ Len(index) = 2
  /\ last.file.filename.ext = ".SQL" /\ index[2].file_type = ".sql"

\* The lines of a system prompt from its WICHTIG heading to its end.
RulesOf(system_prompt) ==
  IF \E n \in 1..Len(system_prompt) : system_prompt[n] = "WICHTIG:"
  THEN LET n == CHOOSE n \in 1..Len(system_prompt) : system_prompt[n] = "WICHTIG:"
       IN SubSeq(system_prompt, n, Len(system_prompt))
  ELSE << >>

\* The prompt says not to invent a value absent from the context.
ForbidsInvention(system_prompt) ==
  \E n \in 1..Len(system_prompt) :
    system_prompt[n] = "- ERFINDE KEINE Werte die nicht im Kontext oder den Unterlagen stehen"

\* The prompt says to state that the context lacks the information.
AdmitsMissing(system_prompt) ==
  /\ \E n \in 1..Len(system_prompt) :
       system_prompt[n] = "- Wenn der Kontext nicht ausreicht, sage das ehrlich"
  /\ \E n \in 1..Len(system_prompt) :
       system_prompt[n] = "- Wenn Information fehlt, sage: \"Diese Information steht nicht in den Unterlagen\""

\* C12: the system prompt of every hint request that reaches the generator
\* tells it not to invent a value absent from the context and to say so
\* when the context lacks the information; the same request at each level
\* 1..4 gets the same lines from the WICHTIG heading on, these two among
\* them.
C12_GroundingDirectives ==
  (HintHandled /\ last.generated) =>
    /\ ForbidsInvention(last.system_prompt)
    /\ AdmitsMissing(last.system_prompt)
    /\ \A l \in 1..4 :
         /\ ForbidsInvention(RulesOf(HintAtLevel(l).system_prompt))
         /\ AdmitsMissing(RulesOf(HintAtLevel(l).system_prompt))
         /\ RulesOf(HintAtLevel(l).system_prompt) = RulesOf(last.system_prompt)

\* C12 witness: a hint answered at level 1, whose own instruction says
\* nothing of invented values, with both directives in its prompt.
C12_Witness ==
  /\ HintHandled /\ last.generated /\ last.status = 200
  /\ last.hint_level = 1
  /\ ForbidsInvention(last.system_prompt)
  /\ AdmitsMissing(last.system_prompt)
  /\ HintAtLevel(4).system_prompt # last.system_prompt

\* Every deployed process has finished lifespan, and none of them caught an
\* exception other than Qdrant's refusal to create a collection that exists.
StartedOnHealthyQdrant ==
  \A i \in deployed :
    /\ pc[i] = "running"
    /\ startup_error[i] \in {"", "create_collection: exists"}

\* C13: once the processes of a deployment have started against a Qdrant
\* server whose calls do not fail, two of them concurrently included, the
\* collection has been created and every process holds a vectorstore.
C13_EveryInstanceUsable ==
  StartedOnHealthyQdrant =>
    /\ collection_exists
    /\ \A i \in deployed : vectorstore[i]

\* C14: no request writes a module global.  HINT_LEVELS keeps the value the
\* module gave it; a step that handles a request (hint, upload, health or
\* stats, answered with any status) leaves llm, embeddings, vectorstore and
\* HINT_LEVELS as they were; and a step that changes one of the three
\* handles is a lifespan step of a process that has not yet started
\* serving.
C14_RequestsWriteNoGlobal ==
  /\ [](HINT_LEVELS = HINT_LEVELS_literal)
  /\ [][last' # last =>
          /\ llm' = llm /\ embeddings' = embeddings /\ vectorstore' = vectorstore
          /\ HINT_LEVELS' = HINT_LEVELS]_vars
  /\ [][(llm' # llm \/ embeddings' # embeddings \/ vectorstore' # vectorstore) =>
          \E i \in deployed : pc[i] # "running" /\ pc'[i] # pc[i]]_vars

\* C14 witness: an upload that failed in add_documents, handled by a
\* process that still holds all three handles.
C14_Witness ==
  /\ last.op = "upload" /\ last.status = 500
  /\ \A i \in deployed :
       pc[i] = "running" /\ llm[i] /\ embeddings[i] /\ vectorstore[i]

\* C15: in the client session a held token comes with a held user record,
\* so that the logged-in branch never reads the user name of None.
C15_TokenImpliesUser ==
  /\ session_state.token # None => session_state.user # None
  /\ page # "TypeError"

====
